---- MODULE Spec2Model ----
(***************************************************************************)
(* The write-buffer flush controller of raftstore:                         *)
(* components/raftstore/src/store/worker/write_buffer_manager.rs           *)
(*                                                                         *)
(* WriteBufferManager keeps two maps (write_buffers, last_access) and      *)
(* plans which regions to flush (pick_to_flush); Runner feeds it messages  *)
(* (run) and executes the plan on every timer tick (on_timeout).           *)
(***************************************************************************)
EXTENDS Integers, Sequences, FiniteSets

(***************************************************************************)
(* Bounds and input sets.                                                  *)
(***************************************************************************)
\* Instants are 0..MaxTime; the clock stops advancing at MaxTime.
MaxTime == 2

\* Region ids (u64).  0 is included: it is the sentinel of pick_one.
Regions == {0, 1, 2}

\* Memtable sizes reported by the engine: empty, exactly the flush
\* threshold, and one large enough to outweigh the rank term of
\* fetch_by_size (1024 per position).
Sizes == {0, 2, 3000}

\* What get_engine_memory_usage() may report after a flush: the memtable
\* was emptied, or (a failed flush, or writes during it) it is still large.
PostFlushSizes == {0, 3000}

Times == 0..MaxTime

\* Config values of a run (scaled down from the defaults).  Immutable once
\* the manager is built, so a run picks one of them in Init.  The batch
\* size is at least 1, as fetch_by_access_time unwraps the head of its heap.
Configs ==
    { [ total_limit     |-> 20,
        soft_limit      |-> 10,
        flush_threshold |-> 2,
        evict_life_time |-> 1,
        max_flush_batch |-> b ] : b \in {1, 2} }

\* A Config whose evict_life_time spans two clock ticks, so that regions
\* accessed at different times can all be too recent to be cold.
SlowEvictConfigs ==
    { [ total_limit     |-> 20,
        soft_limit      |-> 10,
        flush_threshold |-> 2,
        evict_life_time |-> 2,
        max_flush_batch |-> 2 ] }

\* One more region, and one size, for the runs that need a last resort of
\* two regions (half of four last_access entries).
WideRegions == Regions \cup {3}
WideSizes == {3000}

\* Configs whose soft_limit is 1, so that soft_limit / 2 is 0, or 10
LimitConfigs ==
    { [ total_limit     |-> 20,
        soft_limit      |-> s,
        flush_threshold |-> 2,
        evict_life_time |-> 1,
        max_flush_batch |-> 2 ] : s \in {1, 10} }

\* Readings of the global memory oracle.  memory_usage(): below soft_limit,
\* between the limits, at total_limit.  mutable_memtable_memory_usage():
\* below soft_limit, at soft_limit, far above total_limit.
MemUsages == {9, 10, 20}

MutableMemUsages == {9, 10, 8000}

\* no call is running
NoCall == [op |-> "none"]

\* no tick has run
NoTick == [state |-> "none"]

VARIABLES
    write_buffers,   \* HashMap<u64, u64>: region id -> reported size
    last_access,     \* HashMap<u64, Instant>: region id -> last access
    cfg,             \* Config
    now,             \* the monotonic clock (Instant::now())
    call,            \* the manager call that just ran: arguments and result
    pc,              \* on_timeout: "idle", "open" or "flush"
    to_flush,        \* on_timeout: the victims not yet handled
    time,            \* on_timeout: `time` of the victim being flushed
    tick             \* on_timeout: what the running/last tick did

vars == <<write_buffers, last_access, cfg, now, call, pc, to_flush, time, tick>>

(***************************************************************************)
(* HashMap and Vec helpers.                                                *)
(***************************************************************************)
EmptyMap == [k \in {} |-> 0]

\* HashMap::insert
Insert(m, k, v) == [x \in (DOMAIN m) \cup {k} |-> IF x = k THEN v ELSE m[x]]

\* HashMap::remove
Remove(m, k) == [x \in (DOMAIN m) \ {k} |-> m[x]]

Range(s) == {s[i] : i \in DOMAIN s}

Min(a, b) == IF a <= b THEN a ELSE b

\* Ord for tuples of integers of one length: lexicographic.
TupleLt(a, b) ==
    \E i \in 1..Len(a) : a[i] < b[i] /\ \A j \in 1..(i - 1) : a[j] = b[j]

TupleLe(a, b) == a = b \/ TupleLt(a, b)

\* Vec::swap on a 1-based sequence.
Swap(s, i, j) == [s EXCEPT ![i] = s[j], ![j] = s[i]]

\* The orders in which a HashMap of these keys may be iterated: the order
\* is unspecified (it depends on hashing, capacity and insertion history).
IterOrders(m) ==
    { s \in [1..Cardinality(DOMAIN m) -> DOMAIN m] :
        \A i, j \in DOMAIN s : i # j => s[i] # s[j] }

\* Instant::saturating_elapsed
saturating_elapsed(t, clock) == IF clock >= t THEN clock - t ELSE 0

\* slice::sort_by_key(|(_, time)| *time): a stable insertion sort.
RECURSIVE InsertSorted(_, _)
InsertSorted(s, e) ==
    IF s = <<>> THEN <<e>>
    ELSE IF s[Len(s)][2] <= e[2] THEN Append(s, e)
    ELSE Append(InsertSorted(SubSeq(s, 1, Len(s) - 1), e), s[Len(s)])

RECURSIVE sort_by_key(_)
sort_by_key(s) ==
    IF s = <<>> THEN <<>>
    ELSE InsertSorted(sort_by_key(SubSeq(s, 1, Len(s) - 1)), s[Len(s)])

\* last_access.iter().map(..).collect() in iteration order `ord`, sorted:
\* a sequence of <<id, time>>.
sorted_accesses(la, ord) ==
    sort_by_key([i \in DOMAIN ord |-> <<ord[i], la[ord[i]]>>])

(***************************************************************************)
(* std::collections::BinaryHeap (a max-heap stored in a Vec), as used by   *)
(* fetch_by_access_time.  Positions are 1-based here: the parent of p is   *)
(* p \div 2, its children are 2p and 2p + 1.                               *)
(***************************************************************************)
RECURSIVE sift_up(_, _)
sift_up(h, pos) ==
    IF pos <= 1 THEN h
    ELSE LET parent == pos \div 2 IN
         IF TupleLe(h[pos], h[parent]) THEN h
         ELSE sift_up(Swap(h, pos, parent), parent)

RECURSIVE sift_down(_, _)
sift_down(h, pos) ==
    LET end   == Len(h)
        child == 2 * pos
    IN  IF child + 1 <= end
        THEN LET c == IF TupleLe(h[child], h[child + 1]) THEN child + 1 ELSE child IN
             IF TupleLe(h[c], h[pos]) THEN h
             ELSE sift_down(Swap(h, pos, c), c)
        ELSE IF child = end /\ TupleLt(h[pos], h[child])
             THEN Swap(h, pos, child)
             ELSE h

\* BinaryHeap::push
heap_push(h, e) == sift_up(Append(h, e), Len(h) + 1)

\* *heap.peek_mut().unwrap() = e, then the PeekMut is dropped
heap_replace_head(h, e) == sift_down([h EXCEPT ![1] = e], 1)

\* BinaryHeap::into_iter_sorted over the elements `S`: greatest first
RECURSIVE into_iter_sorted(_)
into_iter_sorted(S) ==
    IF S = {} THEN <<>>
    ELSE LET top == CHOOSE e \in S : \A o \in S : TupleLe(o, e)
         IN  <<top>> \o into_iter_sorted(S \ {top})

(***************************************************************************)
(* WriteBufferManager: the planner.  `self` is the record                  *)
(* [write_buffers, last_access, cfg]; `clock` is Instant::now() during the *)
(* call; `ord` is the order in which last_access.iter() yields its keys.   *)
(***************************************************************************)
\* the loop of pick_one from position i on, `res` being (id, size)
RECURSIVE pick_one_loop(_, _, _, _, _)
pick_one_loop(self, clock, accesses, i, res) ==
    IF i > Len(accesses) THEN res
    ELSE LET id == accesses[i][1]
             t  == accesses[i][2]
         IN  IF saturating_elapsed(t, clock) >= self.cfg.evict_life_time
             THEN IF id \notin DOMAIN self.write_buffers
                  THEN pick_one_loop(self, clock, accesses, i + 1, res)
                  ELSE LET size == self.write_buffers[id] IN
                       IF size < self.cfg.flush_threshold
                       THEN pick_one_loop(self, clock, accesses, i + 1, res)
                       ELSE IF size > res[2]
                            THEN pick_one_loop(self, clock, accesses, i + 1, <<id, size>>)
                            ELSE pick_one_loop(self, clock, accesses, i + 1, res)
             ELSE res

\* pick_one returning the coldest entry whatever the loop found
pick_one_always_coldest(self, clock, ord) ==
    LET accesses == sorted_accesses(self.last_access, ord)
    IN  IF Len(accesses) > 0 THEN <<accesses[1][1]>> ELSE <<>>

\* pick_one falling back to the last entry of accesses instead of the first
pick_one_hottest(self, clock, ord) ==
    LET accesses == sorted_accesses(self.last_access, ord)
        res      == pick_one_loop(self, clock, accesses, 1, <<0, 0>>)
    IN  IF res[1] = 0
        THEN IF Len(accesses) > 0 THEN <<accesses[Len(accesses)][1]>> ELSE <<>>
        ELSE <<res[1]>>

\* Option<u64> as a sequence of at most one id
pick_one(self, clock, ord) ==
    LET accesses == sorted_accesses(self.last_access, ord)
        res      == pick_one_loop(self, clock, accesses, 1, <<0, 0>>)
    IN  IF res[1] = 0
        THEN IF Len(accesses) > 0 THEN <<accesses[1][1]>> ELSE <<>>
        ELSE <<res[1]>>

\* the loop of fetch_by_access_time keeping the first max_flush_batch
\* candidates: a full heap is never changed
RECURSIVE fetch_by_access_time_loop_first_come(_, _, _, _, _)
fetch_by_access_time_loop_first_come(self, clock, accesses, i, candidates) ==
    IF i > Len(accesses) THEN candidates
    ELSE LET id == accesses[i][1]
             t  == accesses[i][2]
         IN  IF saturating_elapsed(t, clock) >= self.cfg.evict_life_time
             THEN IF /\ id \in DOMAIN self.write_buffers
                     /\ self.write_buffers[id] >= self.cfg.flush_threshold
                     /\ Len(candidates) < self.cfg.max_flush_batch
                  THEN fetch_by_access_time_loop_first_come(self, clock, accesses, i + 1,
                           heap_push(candidates, <<-self.write_buffers[id], id>>))
                  ELSE fetch_by_access_time_loop_first_come(self, clock, accesses, i + 1,
                           candidates)
             ELSE candidates

\* the loop of fetch_by_access_time from position i on, `candidates` being
\* the heap of (-(size as i64), id)
RECURSIVE fetch_by_access_time_loop(_, _, _, _, _)
fetch_by_access_time_loop(self, clock, accesses, i, candidates) ==
    IF i > Len(accesses) THEN candidates
    ELSE LET id == accesses[i][1]
             t  == accesses[i][2]
         IN  IF saturating_elapsed(t, clock) >= self.cfg.evict_life_time
             THEN IF id \notin DOMAIN self.write_buffers
                  THEN fetch_by_access_time_loop(self, clock, accesses, i + 1, candidates)
                  ELSE LET size == self.write_buffers[id] IN
                       IF size < self.cfg.flush_threshold
                       THEN fetch_by_access_time_loop(self, clock, accesses, i + 1, candidates)
                       ELSE IF Len(candidates) < self.cfg.max_flush_batch
                            THEN fetch_by_access_time_loop(self, clock, accesses, i + 1,
                                     heap_push(candidates, <<-size, id>>))
                            ELSE IF candidates[1][1] > -size
                                 THEN fetch_by_access_time_loop(self, clock, accesses, i + 1,
                                          heap_replace_head(candidates, <<-size, id>>))
                                 ELSE fetch_by_access_time_loop(self, clock, accesses, i + 1,
                                          candidates)
             ELSE candidates

fetch_by_access_time(self, clock, accesses) ==
    LET candidates == fetch_by_access_time_loop(self, clock, accesses, 1, <<>>)
    IN  [i \in DOMAIN candidates |-> candidates[i][2]]

\* size_candidates without the flush_threshold filter
RECURSIVE size_candidates_no_threshold(_, _, _)
size_candidates_no_threshold(self, accesses, i) ==
    IF i > Len(accesses) THEN <<>>
    ELSE LET id == accesses[i][1] IN
         IF id \notin DOMAIN self.write_buffers
         THEN size_candidates_no_threshold(self, accesses, i + 1)
         ELSE <<<<self.write_buffers[id], id>>>>
                  \o size_candidates_no_threshold(self, accesses, i + 1)

\* the (size, id) candidates of fetch_by_size, in the order of `accesses`
RECURSIVE size_candidates(_, _, _)
size_candidates(self, accesses, i) ==
    IF i > Len(accesses) THEN <<>>
    ELSE LET id == accesses[i][1] IN
         IF id \notin DOMAIN self.write_buffers
         THEN size_candidates(self, accesses, i + 1)
         ELSE IF self.write_buffers[id] < self.cfg.flush_threshold
              THEN size_candidates(self, accesses, i + 1)
              ELSE <<<<self.write_buffers[id], id>>>> \o size_candidates(self, accesses, i + 1)

choose_limit(self, mutable_mem_usage) ==
    IF mutable_mem_usage > self.cfg.total_limit
    THEN mutable_mem_usage \div 2
    ELSE self.cfg.soft_limit \div 2

\* the last loop of fetch_by_size over the sorted (priority, size, id)
RECURSIVE take_by_size(_, _, _)
take_by_size(sorted, i, limit) ==
    IF i > Len(sorted) THEN <<>>
    ELSE LET size == sorted[i][2]
             id   == sorted[i][3]
         IN  IF size >= limit THEN <<id>>
             ELSE <<id>> \o take_by_size(sorted, i + 1, limit - size)

\* the heap of fetch_by_size in the order of into_iter_sorted: the
\* (priority, size, id) of the candidates left by candidates.pop()
sorted_priorities(self, accesses) ==
    LET all        == size_candidates(self, accesses, 1)
        candidates == IF all = <<>> THEN <<>> ELSE SubSeq(all, 1, Len(all) - 1)
    IN  into_iter_sorted({ << candidates[p][1] + 1024 * (Len(candidates) - (p - 1)),
                              candidates[p][1], candidates[p][2] >> : p \in DOMAIN candidates })

\* the last loop of fetch_by_size subtracting before it tests
RECURSIVE limit_steps_subtract_first(_, _, _)
limit_steps_subtract_first(sorted, i, limit) ==
    IF i > Len(sorted) THEN <<>>
    ELSE LET step == [ id |-> sorted[i][3], size |-> sorted[i][2],
                       choose_limit |-> limit, subtracted |-> TRUE ]
         IN  IF sorted[i][2] >= limit THEN <<step>>
             ELSE <<step>> \o limit_steps_subtract_first(sorted, i + 1, limit - sorted[i][2])

\* the iterations of the last loop of fetch_by_size: the id pushed, its
\* size, choose_limit at the test, and whether `choose_limit -= size` ran
RECURSIVE limit_steps(_, _, _)
limit_steps(sorted, i, limit) ==
    IF i > Len(sorted) THEN <<>>
    ELSE LET size == sorted[i][2]
             id   == sorted[i][3]
         IN  IF size >= limit
             THEN << [ id |-> id, size |-> size, choose_limit |-> limit,
                       subtracted |-> FALSE ] >>
             ELSE << [ id |-> id, size |-> size, choose_limit |-> limit,
                       subtracted |-> TRUE ] >>
                  \o limit_steps(sorted, i + 1, limit - size)

\* fetch_by_size taking its candidates from write_buffers, accessed or not
fetch_by_size_all_sized(self, accesses, mutable_mem_usage) ==
    LET priority_arr == { << self.write_buffers[id] + 1024, self.write_buffers[id], id >> :
                            id \in { r \in DOMAIN self.write_buffers :
                                       self.write_buffers[r] >= self.cfg.flush_threshold } }
    IN  take_by_size(into_iter_sorted(priority_arr), 1, choose_limit(self, mutable_mem_usage))

\* fetch_by_size whose priority grows with pos: later accesses first
fetch_by_size_newest_first(self, accesses, mutable_mem_usage) ==
    LET all          == size_candidates(self, accesses, 1)
        candidates   == IF all = <<>> THEN <<>> ELSE SubSeq(all, 1, Len(all) - 1)
        priority_arr == { << candidates[p][1] + 1024 * p,
                             candidates[p][1], candidates[p][2] >> : p \in DOMAIN candidates }
    IN  take_by_size(into_iter_sorted(priority_arr), 1, choose_limit(self, mutable_mem_usage))

fetch_by_size(self, accesses, mutable_mem_usage) ==
    LET all          == size_candidates(self, accesses, 1)
        \* candidates.pop(): the last candidate is dropped
        candidates   == IF all = <<>> THEN <<>> ELSE SubSeq(all, 1, Len(all) - 1)
        \* enumerate() counts pos from 0
        priority_arr == { << candidates[p][1] + 1024 * (Len(candidates) - (p - 1)),
                             candidates[p][1], candidates[p][2] >> : p \in DOMAIN candidates }
    IN  take_by_size(into_iter_sorted(priority_arr), 1, choose_limit(self, mutable_mem_usage))

\* pick_batch adding the result of Stage B to that of Stage A
pick_batch_both_stages(self, clock, ord, mutable_mem_usage) ==
    LET accesses == sorted_accesses(self.last_access, ord)
        by_time  == fetch_by_access_time(self, clock, accesses)
        by_size  == by_time \o fetch_by_size(self, accesses, mutable_mem_usage)
        count    == Min(Len(accesses) \div 2, self.cfg.max_flush_batch)
    IN  IF by_size # <<>> THEN by_size
        ELSE [i \in 1..count |-> accesses[i][1]]

\* pick_batch whose last resort does not halve the number of accesses
pick_batch_no_halving(self, clock, ord, mutable_mem_usage) ==
    LET accesses == sorted_accesses(self.last_access, ord)
        by_time  == fetch_by_access_time(self, clock, accesses)
        by_size  == IF by_time = <<>>
                    THEN fetch_by_size(self, accesses, mutable_mem_usage)
                    ELSE by_time
        count    == Min(Len(accesses), self.cfg.max_flush_batch)
    IN  IF by_size # <<>> THEN by_size
        ELSE [i \in 1..count |-> accesses[i][1]]

\* pick_batch without its last resort
pick_batch_no_last_resort(self, clock, ord, mutable_mem_usage) ==
    LET accesses == sorted_accesses(self.last_access, ord)
        by_time  == fetch_by_access_time(self, clock, accesses)
    IN  IF by_time = <<>>
        THEN fetch_by_size(self, accesses, mutable_mem_usage)
        ELSE by_time

pick_batch(self, clock, ord, mutable_mem_usage) ==
    LET accesses == sorted_accesses(self.last_access, ord)
        by_time  == fetch_by_access_time(self, clock, accesses)
        by_size  == IF by_time = <<>>
                    THEN fetch_by_size(self, accesses, mutable_mem_usage)
                    ELSE by_time
        count    == Min(Len(accesses) \div 2, self.cfg.max_flush_batch)
    IN  IF by_size # <<>> THEN by_size
        ELSE [i \in 1..count |-> accesses[i][1]]

\* pick_to_flush without the second early return
pick_to_flush_one_check(self, clock, ord, mem_usage, mutable_mem_usage) ==
    IF mem_usage < self.cfg.soft_limit THEN <<>>
    ELSE IF mutable_mem_usage < self.cfg.soft_limit
         THEN pick_one(self, clock, ord)
         ELSE pick_batch(self, clock, ord, mutable_mem_usage)

pick_to_flush(self, clock, ord, mem_usage, mutable_mem_usage) ==
    IF mem_usage < self.cfg.soft_limit THEN <<>>
    ELSE IF mutable_mem_usage < self.cfg.soft_limit /\ mem_usage < self.cfg.total_limit
         THEN <<>>
         ELSE IF mutable_mem_usage < self.cfg.soft_limit
              THEN pick_one(self, clock, ord)
              ELSE pick_batch(self, clock, ord, mutable_mem_usage)

(***************************************************************************)
(* WriteBufferManager: the mutators, as functions from the maps to the     *)
(* new maps.                                                               *)
(***************************************************************************)
record_size(wb, region_id, size) == Insert(wb, region_id, size)

\* record_access that never moves an access time backwards
record_access_monotone(la, region_id, t) ==
    IF region_id \in DOMAIN la /\ la[region_id] > t THEN la
    ELSE Insert(la, region_id, t)

record_access(la, region_id, t) == Insert(la, region_id, t)

\* mark_flush whose restore branch does not return early
mark_flush_no_return(la, wb, id, t, size) ==
    IF id \in DOMAIN la /\ la[id] > t
    THEN [last_access |-> Insert(Remove(la, id), id, la[id]),
          write_buffers |-> Insert(wb, id, size)]
    ELSE [last_access |-> Remove(la, id), write_buffers |-> Insert(wb, id, size)]

\* mark_flush comparing with >= instead of >
mark_flush_ge(la, wb, id, t, size) ==
    IF id \in DOMAIN la /\ la[id] >= t
    THEN [last_access |-> Insert(Remove(la, id), id, la[id]), write_buffers |-> wb]
    ELSE [last_access |-> Remove(la, id), write_buffers |-> Insert(wb, id, size)]

\* mark_flush forgetting the size of a region whose memtable is empty
mark_flush_forget_empty(la, wb, id, t, size) ==
    IF id \in DOMAIN la /\ la[id] > t
    THEN [last_access |-> Insert(Remove(la, id), id, la[id]), write_buffers |-> wb]
    ELSE [last_access |-> Remove(la, id),
          write_buffers |-> IF size = 0 THEN Remove(wb, id) ELSE Insert(wb, id, size)]

\* mark_flush that keeps the access entry of the flushed region
mark_flush_keeps_access(la, wb, id, t, size) ==
    [last_access |-> la, write_buffers |-> Insert(wb, id, size)]

\* the new [last_access, write_buffers]
mark_flush(la, wb, id, t, size) ==
    IF id \in DOMAIN la /\ la[id] > t
    THEN [last_access |-> Insert(Remove(la, id), id, la[id]), write_buffers |-> wb]
    ELSE [last_access |-> Remove(la, id), write_buffers |-> Insert(wb, id, size)]

(***************************************************************************)
(* Which rung of the ladder produced the output of pick_to_flush.          *)
(***************************************************************************)
cold_candidates(self, clock) ==
    { id \in DOMAIN self.last_access :
        /\ saturating_elapsed(self.last_access[id], clock) >= self.cfg.evict_life_time
        /\ id \in DOMAIN self.write_buffers
        /\ self.write_buffers[id] >= self.cfg.flush_threshold }

pick_branch(self, clock, ord, mem_usage, mutable_mem_usage) ==
    LET accesses == sorted_accesses(self.last_access, ord) IN
    IF mem_usage < self.cfg.soft_limit THEN "no_pressure"
    ELSE IF mutable_mem_usage < self.cfg.soft_limit /\ mem_usage < self.cfg.total_limit
         THEN "immutable_heavy"
    ELSE IF mutable_mem_usage < self.cfg.soft_limit
         THEN IF pick_one_loop(self, clock, accesses, 1, <<0, 0>>)[1] = 0
              THEN "coldest" ELSE "pick_one"
    ELSE IF fetch_by_access_time(self, clock, accesses) # <<>> THEN "by_access_time"
    ELSE IF fetch_by_size(self, accesses, mutable_mem_usage) # <<>> THEN "by_size"
    ELSE "last_resort"

(***************************************************************************)
(* The manager as a state machine: any sequence of calls of its methods.   *)
(* `call` holds the call that just ran, until it returns.                  *)
(***************************************************************************)
Self == [write_buffers |-> write_buffers, last_access |-> last_access, cfg |-> cfg]

runner_vars == <<pc, to_flush, time, tick>>

Init ==
    /\ write_buffers = EmptyMap
    /\ last_access = EmptyMap
    /\ cfg \in Configs
    /\ now = 0
    /\ call = NoCall
    /\ pc = "idle"
    /\ to_flush = <<>>
    /\ time = 0
    /\ tick = NoTick

RecordAccessCall(region_id, t) ==
    /\ call = NoCall
    /\ pc = "idle"
    /\ last_access' = record_access(last_access, region_id, t)
    \* `replaced` is what self.last_access.insert(region_id, time) returned
    /\ call' = [ op |-> "record_access", region_id |-> region_id, time |-> t,
                 replaced |-> IF region_id \in DOMAIN last_access
                              THEN <<last_access[region_id]>> ELSE <<>> ]
    /\ UNCHANGED <<write_buffers, cfg, now, runner_vars>>

\* `time` of a RecordAccess is an Instant::now() its sender took before
RecordAccess == \E region_id \in Regions, t \in 0..now : RecordAccessCall(region_id, t)

RecordSizeCall(region_id, size) ==
    /\ call = NoCall
    /\ pc = "idle"
    /\ write_buffers' = record_size(write_buffers, region_id, size)
    /\ call' = [op |-> "record_size", region_id |-> region_id, size |-> size]
    /\ UNCHANGED <<last_access, cfg, now, runner_vars>>

RecordSize == \E region_id \in Regions, size \in Sizes : RecordSizeCall(region_id, size)

MarkFlushCall(id, t, size) ==
    /\ call = NoCall
    /\ pc = "idle"
    /\ LET new == mark_flush(last_access, write_buffers, id, t, size) IN
        /\ last_access' = new.last_access
        /\ write_buffers' = new.write_buffers
    \* `removed` is what self.last_access.remove(&id) returned
    /\ call' = [ op |-> "mark_flush", id |-> id, time |-> t, size |-> size,
                 removed |-> IF id \in DOMAIN last_access THEN <<last_access[id]>> ELSE <<>> ]
    /\ UNCHANGED <<cfg, now, runner_vars>>

MarkFlush == \E id \in Regions, t \in 0..now, size \in Sizes : MarkFlushCall(id, t, size)

PickToFlush ==
    /\ call = NoCall
    /\ pc = "idle"
    /\ \E mem_usage \in MemUsages, mutable_mem_usage \in MutableMemUsages,
          ord \in IterOrders(last_access) :
        call' = [ op                |-> "pick_to_flush",
                  mem_usage         |-> mem_usage,
                  mutable_mem_usage |-> mutable_mem_usage,
                  branch            |-> pick_branch(Self, now, ord, mem_usage, mutable_mem_usage),
                  out               |-> pick_to_flush(Self, now, ord, mem_usage, mutable_mem_usage) ]
    /\ UNCHANGED <<write_buffers, last_access, cfg, now, runner_vars>>

\* the call, or the tick, returns to its caller
Return ==
    /\ call # NoCall \/ pc = "returned"
    /\ call' = NoCall
    /\ pc' = "idle"
    /\ tick' = NoTick
    /\ UNCHANGED <<write_buffers, last_access, cfg, now, to_flush, time>>

\* time passes: between two handlers, and while flush blocks the worker
Advance ==
    /\ call = NoCall
    /\ pc \in {"idle", "flush"}
    /\ now < MaxTime
    /\ now' = now + 1
    /\ UNCHANGED <<write_buffers, last_access, cfg, call, runner_vars>>

Next == RecordAccess \/ RecordSize \/ MarkFlush \/ PickToFlush \/ Return \/ Advance

Spec == Init /\ [][Next]_vars

\* the manager built with a Config of SlowEvictConfigs
SlowEvictInit ==
    /\ write_buffers = EmptyMap
    /\ last_access = EmptyMap
    /\ cfg \in SlowEvictConfigs
    /\ now = 0
    /\ call = NoCall
    /\ pc = "idle"
    /\ to_flush = <<>>
    /\ time = 0
    /\ tick = NoTick

SlowEvictSpec == SlowEvictInit /\ [][Next]_vars

\* the manager called for the regions of WideRegions
WideRecordAccess == \E region_id \in WideRegions, t \in 0..now : RecordAccessCall(region_id, t)

WideRecordSize == \E region_id \in WideRegions, size \in WideSizes : RecordSizeCall(region_id, size)

WideNext == WideRecordAccess \/ WideRecordSize \/ PickToFlush \/ Return \/ Advance

WideSpec == Init /\ [][WideNext]_vars

\* the manager built with a Config of LimitConfigs
LimitInit ==
    /\ write_buffers = EmptyMap
    /\ last_access = EmptyMap
    /\ cfg \in LimitConfigs
    /\ now = 0
    /\ call = NoCall
    /\ pc = "idle"
    /\ to_flush = <<>>
    /\ time = 0
    /\ tick = NoTick

LimitSpec == LimitInit /\ [][Next]_vars

(***************************************************************************)
(* Runner: messages and timer ticks, run one at a time by one worker.      *)
(* on_timeout is split where it calls its collaborators: the tablet        *)
(* registry (OpenTablet) and the tablet (FlushTablet); no message is       *)
(* handled before the tick has returned.  `tick` records what the tick     *)
(* planned, the maps it started from and what it did since.                *)
(***************************************************************************)
\* Runnable::run
Run ==
    \/ \E region_id \in Regions, t \in 0..now : RecordAccessCall(region_id, t)
    \/ \E region_id \in Regions, size \in Sizes : RecordSizeCall(region_id, size)

\* on_timeout flushing every accessed region when the plan is empty
OnTimeoutNeverIdle ==
    /\ call = NoCall
    /\ pc = "idle"
    /\ \E mem_usage \in MemUsages, mutable_mem_usage \in MutableMemUsages,
          ord \in IterOrders(last_access) :
        LET out      == pick_to_flush(Self, now, ord, mem_usage, mutable_mem_usage)
            accesses == sorted_accesses(last_access, ord)
            victims  == IF out = <<>> THEN [i \in DOMAIN accesses |-> accesses[i][1]] ELSE out
        IN
        /\ tick' = [ state             |-> "ran",
                     mem_usage         |-> mem_usage,
                     mutable_mem_usage |-> mutable_mem_usage,
                     out               |-> out,
                     last_access       |-> last_access,
                     write_buffers     |-> write_buffers,
                     log               |-> <<>> ]
        /\ to_flush' = victims
        /\ pc' = IF victims = <<>> THEN "returned" ELSE "open"
    /\ UNCHANGED <<write_buffers, last_access, cfg, now, call, time>>

\* on_timeout walking its plan from the last victim to the first
OnTimeoutReversed ==
    /\ call = NoCall
    /\ pc = "idle"
    /\ \E mem_usage \in MemUsages, mutable_mem_usage \in MutableMemUsages,
          ord \in IterOrders(last_access) :
        LET out == pick_to_flush(Self, now, ord, mem_usage, mutable_mem_usage) IN
        /\ tick' = [ state             |-> "ran",
                     mem_usage         |-> mem_usage,
                     mutable_mem_usage |-> mutable_mem_usage,
                     out               |-> out,
                     last_access       |-> last_access,
                     write_buffers     |-> write_buffers,
                     log               |-> <<>> ]
        /\ to_flush' = [i \in DOMAIN out |-> out[Len(out) + 1 - i]]
        /\ pc' = IF out = <<>> THEN "returned" ELSE "open"
    /\ UNCHANGED <<write_buffers, last_access, cfg, now, call, time>>

\* on_timeout up to the loop: the plan
OnTimeout ==
    /\ call = NoCall
    /\ pc = "idle"
    /\ \E mem_usage \in MemUsages, mutable_mem_usage \in MutableMemUsages,
          ord \in IterOrders(last_access) :
        LET out == pick_to_flush(Self, now, ord, mem_usage, mutable_mem_usage) IN
        /\ tick' = [ state             |-> "ran",
                     mem_usage         |-> mem_usage,
                     mutable_mem_usage |-> mutable_mem_usage,
                     out               |-> out,
                     last_access       |-> last_access,
                     write_buffers     |-> write_buffers,
                     log               |-> <<>> ]
        /\ to_flush' = out
        /\ pc' = IF out = <<>> THEN "returned" ELSE "open"
    /\ UNCHANGED <<write_buffers, last_access, cfg, now, call, time>>

\* OpenTablet that skips a victim without a tablet (`continue` for `return`)
OpenTabletContinue ==
    /\ pc = "open"
    /\ LET region_id == Head(to_flush) IN
       \E tablet \in {"Some", "None"} :
          IF tablet = "None"
          THEN /\ pc' = IF Tail(to_flush) = <<>> THEN "returned" ELSE "open"
               /\ to_flush' = Tail(to_flush)
               /\ tick' = [tick EXCEPT !.log = Append(@, <<"no_tablet", region_id>>)]
               /\ UNCHANGED time
          ELSE /\ pc' = "flush"
               /\ time' = now
               /\ tick' = [tick EXCEPT !.log = Append(@, <<"flush", region_id>>)]
               /\ UNCHANGED to_flush
    /\ UNCHANGED <<write_buffers, last_access, cfg, now, call>>

\* OpenTablet that does not take the time of the flush
OpenTabletStaleTime ==
    /\ pc = "open"
    /\ LET region_id == Head(to_flush) IN
       \E tablet \in {"Some", "None"} :
          IF tablet = "None"
          THEN /\ pc' = "returned"
               /\ to_flush' = <<>>
               /\ tick' = [tick EXCEPT !.log = Append(@, <<"no_tablet", region_id>>)]
          ELSE /\ pc' = "flush"
               /\ tick' = [tick EXCEPT !.log = Append(@, <<"flush", region_id>>)]
               /\ UNCHANGED to_flush
    /\ UNCHANGED <<write_buffers, last_access, cfg, now, call, time>>

\* the head of the loop: open_tablet_cache_any(region_id), then
\* `time = Instant::now()` and the call of flush
OpenTablet ==
    /\ pc = "open"
    /\ LET region_id == Head(to_flush) IN
       \E tablet \in {"Some", "None"} :
          IF tablet = "None"
          THEN /\ pc' = "returned"
               /\ to_flush' = <<>>
               /\ tick' = [tick EXCEPT !.log = Append(@, <<"no_tablet", region_id>>)]
               /\ UNCHANGED time
          ELSE /\ pc' = "flush"
               /\ time' = now
               /\ tick' = [tick EXCEPT !.log = Append(@, <<"flush", region_id>>)]
               /\ UNCHANGED to_flush
    /\ UNCHANGED <<write_buffers, last_access, cfg, now, call>>

\* FlushTablet that gives up the batch when flush fails (`?` on the result)
FlushTabletPropagates ==
    /\ pc = "flush"
    /\ LET region_id == Head(to_flush) IN
       \E result \in {"Ok", "Err"}, size \in PostFlushSizes :
          LET new == mark_flush(last_access, write_buffers, region_id, time, size) IN
          IF result = "Err"
          THEN /\ tick' = [tick EXCEPT !.log = Append(@, <<result, region_id>>)]
               /\ to_flush' = <<>>
               /\ pc' = "returned"
               /\ UNCHANGED <<last_access, write_buffers>>
          ELSE /\ last_access' = new.last_access
               /\ write_buffers' = new.write_buffers
               /\ tick' = [tick EXCEPT !.log =
                              @ \o << <<result, region_id>>, <<"mark_flush", region_id>> >>]
               /\ to_flush' = Tail(to_flush)
               /\ pc' = IF Tail(to_flush) = <<>> THEN "returned" ELSE "open"
    /\ time' = 0
    /\ UNCHANGED <<cfg, now, call>>

\* flush(true) returns, the memory usage is read, mark_flush is called, and
\* the loop goes on with the next victim
FlushTablet ==
    /\ pc = "flush"
    /\ LET region_id == Head(to_flush) IN
       \E result \in {"Ok", "Err"}, size \in PostFlushSizes :
          LET new == mark_flush(last_access, write_buffers, region_id, time, size) IN
          /\ last_access' = new.last_access
          /\ write_buffers' = new.write_buffers
          /\ tick' = [tick EXCEPT !.log =
                         @ \o << <<result, region_id>>, <<"mark_flush", region_id>> >>]
          /\ to_flush' = Tail(to_flush)
          /\ pc' = IF Tail(to_flush) = <<>> THEN "returned" ELSE "open"
    /\ time' = 0
    /\ UNCHANGED <<cfg, now, call>>

RunnerNext == Run \/ OnTimeout \/ OpenTablet \/ FlushTablet \/ Return \/ Advance

\* the Runner is built with the larger of the batch sizes
RunnerInit == Init /\ \A c \in Configs : c.max_flush_batch <= cfg.max_flush_batch

RunnerSpec == RunnerInit /\ [][RunnerNext]_vars

\* The Runner while the registry has a tablet for every victim, ticks
\* firing every check_interval and the worker running each handler to its
\* end.
OpenTabletResolved ==
    /\ pc = "open"
    /\ pc' = "flush"
    /\ time' = now
    /\ tick' = [tick EXCEPT !.log = Append(@, <<"flush", Head(to_flush)>>)]
    /\ UNCHANGED <<write_buffers, last_access, cfg, now, call, to_flush>>

ResolvedNext == Run \/ OnTimeout \/ OpenTabletResolved \/ FlushTablet \/ Return \/ Advance

ResolvedFairness ==
    /\ WF_vars(OnTimeout)
    /\ WF_vars(OpenTabletResolved)
    /\ WF_vars(FlushTablet)
    /\ WF_vars(Return)

ResolvedSpec == RunnerInit /\ [][ResolvedNext]_vars /\ ResolvedFairness

(***************************************************************************)
(* Properties of the planner and of mark_flush, under Spec.                *)
(***************************************************************************)
PlannerReturned == call.op = "pick_to_flush"

\* C1: whatever the maps, the clock and the oracle readings, the list
\* returned by pick_to_flush has at most max_flush_batch elements.
C1_OutputWithinBatch ==
    PlannerReturned => Len(call.out) <= cfg.max_flush_batch

\* C2, as stated: every region id returned by pick_to_flush has an entry in
\* write_buffers and an entry in last_access at the moment of planning.
C2_OutputInBothMaps ==
    PlannerReturned =>
        \A i \in DOMAIN call.out :
            call.out[i] \in DOMAIN write_buffers /\ call.out[i] \in DOMAIN last_access

\* C2, amended: every region id returned by pick_to_flush has an entry in
\* last_access; it has an entry in write_buffers as well unless it was
\* returned by the fallback of pick_one to the coldest entry or by the last
\* resort of pick_batch (which do not look at write_buffers).
C2_OutputTracked ==
    PlannerReturned =>
        \A i \in DOMAIN call.out :
            /\ call.out[i] \in DOMAIN last_access
            /\ ( call.branch \notin {"coldest", "last_resort"}
                   => call.out[i] \in DOMAIN write_buffers )

\* a by-size plan while some accessed region has no recorded size
C2_Witness ==
    /\ PlannerReturned
    /\ call.branch = "by_size"
    /\ call.out # <<>>
    /\ \E id \in DOMAIN last_access : id \notin DOMAIN write_buffers

\* C3: pick_to_flush returns the empty list whenever memory_usage is below
\* soft_limit, and whenever mutable usage is below soft_limit and
\* memory_usage is below total_limit, whatever the maps hold.
C3_NoPressureNoFlush ==
    ( /\ PlannerReturned
      /\ \/ call.mem_usage < cfg.soft_limit
         \/ ( /\ call.mutable_mem_usage < cfg.soft_limit
              /\ call.mem_usage < cfg.total_limit )
    ) => call.out = <<>>

\* the second early return taken although a cold, large region is there
C3_Witness ==
    /\ PlannerReturned
    /\ call.mem_usage >= cfg.soft_limit
    /\ call.mem_usage < cfg.total_limit
    /\ call.mutable_mem_usage < cfg.soft_limit
    /\ cold_candidates(Self, now) # {}
    /\ call.out = <<>>

\* C4: mark_flush(id, t, s) called while last_access[id] exists and is
\* strictly greater than t leaves both maps exactly as they were.
C4_MarkFlushPreserves ==
    [][ call'.op = "mark_flush" =>
          LET id == call'.id  t == call'.time  size == call'.size IN
          ( /\ MarkFlushCall(id, t, size)
            /\ id \in DOMAIN last_access
            /\ last_access[id] > t )
          => /\ last_access' = last_access
             /\ write_buffers' = write_buffers ]_vars

\* mark_flush has restored a later access and dropped a different size
C4_Witness ==
    /\ call.op = "mark_flush"
    /\ call.removed # <<>>
    /\ call.removed[1] > call.time
    /\ call.id \in DOMAIN last_access
    /\ last_access[call.id] = call.removed[1]
    /\ call.id \in DOMAIN write_buffers
    /\ write_buffers[call.id] # call.size

\* C5: mark_flush(id, t, s) called while last_access[id] is absent or at
\* most t ends with no last_access entry for id and write_buffers[id] = s,
\* and changes no entry of another region.
C5_MarkFlushCommits ==
    [][ call'.op = "mark_flush" =>
          LET id == call'.id  t == call'.time  size == call'.size IN
          ( /\ MarkFlushCall(id, t, size)
            /\ (id \notin DOMAIN last_access \/ last_access[id] <= t) )
          => /\ id \notin DOMAIN last_access'
             /\ id \in DOMAIN write_buffers'
             /\ write_buffers'[id] = size
             /\ \A r \in Regions \ {id} :
                  /\ (r \in DOMAIN last_access') = (r \in DOMAIN last_access)
                  /\ (r \in DOMAIN last_access => last_access'[r] = last_access[r])
                  /\ (r \in DOMAIN write_buffers') = (r \in DOMAIN write_buffers)
                  /\ (r \in DOMAIN write_buffers => write_buffers'[r] = write_buffers[r])
      ]_vars

\* mark_flush has removed an access made at exactly t, next to other entries
C5_Witness ==
    /\ call.op = "mark_flush"
    /\ call.removed = <<call.time>>
    /\ call.id \notin DOMAIN last_access
    /\ write_buffers[call.id] = call.size
    /\ DOMAIN last_access # {}
    /\ DOMAIN write_buffers # {call.id}

\* C9: two calls of pick_to_flush on equal maps, clock and readings return
\* the same list, whatever order the HashMap yields its entries in.
C9_Deterministic ==
    PlannerReturned =>
        \A ord \in IterOrders(last_access) :
            pick_to_flush(Self, now, ord, call.mem_usage, call.mutable_mem_usage) = call.out

\* C10: of candidates of equal size competing for the slot of pick_one or
\* for a place in the heap of fetch_by_access_time, the one with the
\* smaller region id is selected.
C10_SmallerIdWinsTies ==
    /\ (PlannerReturned /\ call.branch = "pick_one") =>
           \A y \in cold_candidates(Self, now) :
               write_buffers[y] = write_buffers[call.out[1]] => call.out[1] <= y
    /\ (PlannerReturned /\ call.branch = "by_access_time") =>
           \A x \in Range(call.out), y \in cold_candidates(Self, now) \ Range(call.out) :
               write_buffers[y] = write_buffers[x] => x < y

\* C11, as stated: a region whose size s was just recorded by record_size
\* and that the planner then selects has s >= flush_threshold, unless the
\* output was produced by the last resort (Stage C) of pick_batch.
\* (write_buffers[id] is the s of the last record_size(id, s).)
C11_SelectedIsLargeOrLastResort ==
    PlannerReturned =>
        \A id \in Range(call.out) \cap DOMAIN write_buffers :
            \/ write_buffers[id] >= cfg.flush_threshold
            \/ call.branch = "last_resort"

\* C11, amended: a region whose size s was just recorded by record_size and
\* that the planner then selects has s >= flush_threshold, unless the output
\* was produced by the fallback of pick_one to the coldest entry or by the
\* last resort (Stage C) of pick_batch.
C11_SelectedIsLargeOrFallback ==
    PlannerReturned =>
        \A id \in Range(call.out) \cap DOMAIN write_buffers :
            \/ write_buffers[id] >= cfg.flush_threshold
            \/ call.branch \in {"coldest", "last_resort"}

\* a region whose recorded size is below the threshold is planned by the
\* fallback of pick_one to the coldest entry
C11_Witness ==
    /\ PlannerReturned
    /\ call.branch = "coldest"
    /\ call.out # <<>>
    /\ call.out[1] \in DOMAIN write_buffers
    /\ write_buffers[call.out[1]] < cfg.flush_threshold

\* the planner reached pick_batch
BatchRegime ==
    /\ PlannerReturned
    /\ call.mem_usage >= cfg.soft_limit
    /\ call.mutable_mem_usage >= cfg.soft_limit

\* C12: in the batch regime, when at least one region is cold with a
\* recorded size >= flush_threshold, the output holds only such regions,
\* min(max_flush_batch, their number) of them, and no such region left out
\* is strictly larger than one that is in.
C12_BatchTakesLargestCold ==
    (BatchRegime /\ cold_candidates(Self, now) # {}) =>
        LET cold == cold_candidates(Self, now) IN
        /\ Range(call.out) \subseteq cold
        /\ Cardinality(Range(call.out)) = Min(cfg.max_flush_batch, Cardinality(cold))
        /\ \A x \in Range(call.out), y \in cold \ Range(call.out) :
               write_buffers[y] <= write_buffers[x]

\* more cold qualifying regions than max_flush_batch, of different sizes,
\* next to a region that does not qualify
C12_Witness ==
    /\ BatchRegime
    /\ Cardinality(cold_candidates(Self, now)) > cfg.max_flush_batch
    /\ \E x \in Range(call.out), y \in cold_candidates(Self, now) \ Range(call.out) :
           write_buffers[y] < write_buffers[x]
    /\ DOMAIN last_access \ cold_candidates(Self, now) # {}

\* C13: the list returned by Stage A of pick_batch (fetch_by_access_time)
\* is in descending order of recorded size: for positions i < j,
\* size(output[i]) >= size(output[j]).
C13_StageADescending ==
    (PlannerReturned /\ call.branch = "by_access_time") =>
        \A i, j \in DOMAIN call.out :
            i < j => write_buffers[call.out[i]] >= write_buffers[call.out[j]]

\* C14, as stated: whenever pick_batch runs with at least one region in
\* last_access it returns a non-empty list.
C14_BatchNeverEmpty ==
    (BatchRegime /\ DOMAIN last_access # {}) => call.out # <<>>

\* C14, amended: whenever pick_batch runs with at least two regions in
\* last_access it returns a non-empty list.
C14_BatchOfTwoNeverEmpty ==
    (BatchRegime /\ Cardinality(DOMAIN last_access) >= 2) => call.out # <<>>

\* the last resort is what made the plan non-empty
C14_Witness ==
    /\ BatchRegime
    /\ Cardinality(DOMAIN last_access) >= 2
    /\ call.branch = "last_resort"
    /\ call.out # <<>>

\* the regions with a last_access entry and a recorded size >= flush_threshold
sized_regions ==
    { id \in DOMAIN last_access \cap DOMAIN write_buffers :
        write_buffers[id] >= cfg.flush_threshold }

\* the sum of the recorded sizes of the regions of S
RECURSIVE total_size(_)
total_size(S) ==
    IF S = {} THEN 0
    ELSE LET id == CHOOSE x \in S : TRUE
         IN  write_buffers[id] + total_size(S \ {id})

\* C15: in Stage B of pick_batch (no cold qualifying region), when the
\* regions with a last_access entry and a recorded size >= flush_threshold
\* number at most max_flush_batch and their total size is below
\* choose_limit, all of them are returned.
C15_StageBReturnsAllCandidates ==
    ( /\ BatchRegime
      /\ cold_candidates(Self, now) = {}
      /\ Cardinality(sized_regions) <= cfg.max_flush_batch
      /\ total_size(sized_regions) < choose_limit(Self, call.mutable_mem_usage)
    ) => sized_regions \subseteq Range(call.out)

\* the planner reached pick_one
SingleFlushRegime ==
    /\ PlannerReturned
    /\ call.mutable_mem_usage < cfg.soft_limit
    /\ call.mem_usage >= cfg.total_limit

\* C16: in the single-flush regime, when at least one region is cold with a
\* recorded size >= flush_threshold, the planner returns exactly one region,
\* a cold one whose size is the maximum among the cold regions of size >=
\* flush_threshold, whatever the region ids are (0 included).
C16_SingleTakesLargestCold ==
    (SingleFlushRegime /\ cold_candidates(Self, now) # {}) =>
        /\ Len(call.out) = 1
        /\ call.out[1] \in cold_candidates(Self, now)
        /\ \A y \in cold_candidates(Self, now) :
               write_buffers[y] <= write_buffers[call.out[1]]

\* C17: in the single-flush regime the output has at most one element; when
\* no region is cold with a recorded size >= flush_threshold it is the
\* region with the oldest last_access time; it is empty only when
\* last_access is empty.
C17_SingleOrColdest ==
    SingleFlushRegime =>
        /\ Len(call.out) <= 1
        /\ (call.out = <<>> => DOMAIN last_access = {})
        /\ ( (cold_candidates(Self, now) = {} /\ call.out # <<>>) =>
               /\ call.out[1] \in DOMAIN last_access
               /\ \A r \in DOMAIN last_access :
                      last_access[call.out[1]] <= last_access[r] )

\* no cold qualifying region, and the plan is the older of regions accessed
\* at different times
C17_Witness ==
    /\ SingleFlushRegime
    /\ cold_candidates(Self, now) = {}
    /\ call.out # <<>>
    /\ \E r \in DOMAIN last_access : last_access[r] > last_access[call.out[1]]

\* C18: record_access(r, t) ends with last_access[r] = t, also when t is
\* earlier than the stored time, and record_size(r, s) ends with
\* write_buffers[r] = s, also for s = 0; each changes no other entry of its
\* map and leaves the other map as it was.
C18_IntakeOverwritesOneEntry ==
    [][ /\ call'.op = "record_access" =>
             LET r == call'.region_id  t == call'.time IN
             RecordAccessCall(r, t) =>
                 /\ DOMAIN last_access' = DOMAIN last_access \cup {r}
                 /\ last_access'[r] = t
                 /\ \A k \in DOMAIN last_access \ {r} : last_access'[k] = last_access[k]
                 /\ write_buffers' = write_buffers
        /\ call'.op = "record_size" =>
             LET r == call'.region_id  s == call'.size IN
             RecordSizeCall(r, s) =>
                 /\ DOMAIN write_buffers' = DOMAIN write_buffers \cup {r}
                 /\ write_buffers'[r] = s
                 /\ \A k \in DOMAIN write_buffers \ {r} : write_buffers'[k] = write_buffers[k]
                 /\ last_access' = last_access
      ]_vars

\* record_access has overwritten a later time by an earlier one, next to
\* another region's entry and to a recorded size of 0
C18_Witness ==
    /\ call.op = "record_access"
    /\ call.replaced # <<>>
    /\ call.replaced[1] > call.time
    /\ last_access[call.region_id] = call.time
    /\ DOMAIN last_access # {call.region_id}
    /\ \E r \in DOMAIN write_buffers : write_buffers[r] = 0

\* C19: a region that has an entry in write_buffers has one in every later
\* state: no call of record_access, record_size, pick_to_flush or mark_flush
\* removes an entry of write_buffers.
C19_WriteBuffersNeverShrinks ==
    [][DOMAIN write_buffers \subseteq DOMAIN write_buffers']_vars

\* mark_flush has dropped the access of a region and recorded an empty
\* memtable for it: the entry of write_buffers is still there
C19_Witness ==
    /\ call.op = "mark_flush"
    /\ call.removed # <<>>
    /\ call.size = 0
    /\ call.id \notin DOMAIN last_access
    /\ call.id \in DOMAIN write_buffers
    /\ write_buffers[call.id] = 0

\* all the (priority, size, id) of Stage B in descending order of priority,
\* the HashMap yielding its keys in the order `ord`
priority_order(ord) ==
    LET all == size_candidates(Self, sorted_accesses(last_access, ord), 1)
    IN  into_iter_sorted({ << all[p][1] + 1024 * (Len(all) - (p - 1)), all[p][1], all[p][2] >> :
                             p \in DOMAIN all })

\* the total size of the first n elements of P
RECURSIVE cumulative(_, _)
cumulative(P, n) == IF n = 0 THEN 0 ELSE P[n][2] + cumulative(P, n - 1)

\* C20: the list returned by Stage B of pick_batch is a prefix of the
\* candidates in descending order of priority; it stops as soon as its
\* cumulative size reaches choose_limit or max_flush_batch regions are
\* taken, so without its last element its size is below choose_limit.
C20_StageBStopsAtLimitOrBatch ==
    (PlannerReturned /\ call.branch = "by_size") =>
        \E ord \in IterOrders(last_access) :
            LET P     == priority_order(ord)
                n     == Len(call.out)
                limit == choose_limit(Self, call.mutable_mem_usage)
            IN  /\ n <= Len(P)
                /\ \A i \in 1..n : call.out[i] = P[i][3]
                /\ n <= cfg.max_flush_batch
                /\ cumulative(P, n - 1) < limit
                /\ (n < Len(P) => (cumulative(P, n) >= limit \/ n = cfg.max_flush_batch))

\* position of region x in the list out (0 when absent)
index_of(out, x) == IF x \in Range(out) THEN CHOOSE i \in DOMAIN out : out[i] = x ELSE 0

\* C21 (under SlowEvictSpec): in the output of Stage B, a candidate that is
\* older than another and at least as large (equal size, or larger) comes
\* before it: whenever the younger one is in the output the older one is
\* too, at an earlier position.
C21_OlderAndNotSmallerFirst ==
    (PlannerReturned /\ call.branch = "by_size") =>
        \A y \in Range(call.out), x \in sized_regions :
            (last_access[x] < last_access[y] /\ write_buffers[x] >= write_buffers[y]) =>
                /\ x \in Range(call.out)
                /\ index_of(call.out, x) < index_of(call.out, y)

\* Stage B has returned two regions of equal size accessed at different times
C21_Witness ==
    /\ PlannerReturned
    /\ call.branch = "by_size"
    /\ \E x, y \in Range(call.out) :
          /\ last_access[x] < last_access[y]
          /\ write_buffers[x] = write_buffers[y]

\* C22 (under WideSpec): when Stage A and Stage B of pick_batch both yield
\* nothing, the output is min(|last_access| / 2, max_flush_batch) distinct
\* regions of last_access in ascending order of access time, none of them
\* accessed later than a region left out, whatever write_buffers holds.
C22_LastResortTakesOldestHalf ==
    (PlannerReturned /\ call.branch = "last_resort") =>
        /\ Len(call.out) = Min(Cardinality(DOMAIN last_access) \div 2, cfg.max_flush_batch)
        /\ Cardinality(Range(call.out)) = Len(call.out)
        /\ Range(call.out) \subseteq DOMAIN last_access
        /\ \A i, j \in DOMAIN call.out :
               i < j => last_access[call.out[i]] <= last_access[call.out[j]]
        /\ \A x \in Range(call.out), y \in DOMAIN last_access \ Range(call.out) :
               last_access[x] <= last_access[y]

\* the last resort has returned two regions accessed at different times, one
\* of them without a recorded size, and left out regions accessed later
C22_Witness ==
    /\ PlannerReturned
    /\ call.branch = "last_resort"
    /\ Len(call.out) = 2
    /\ last_access[call.out[1]] < last_access[call.out[2]]
    /\ \E x \in Range(call.out) : x \notin DOMAIN write_buffers
    /\ \E y \in DOMAIN last_access \ Range(call.out) :
           last_access[y] > last_access[call.out[2]]

\* C25: every region returned by pick_to_flush has an entry in last_access
\* at the time of planning, whatever the branch: a region that only has a
\* recorded size is never selected.
C25_OutputAccessed ==
    PlannerReturned => Range(call.out) \subseteq DOMAIN last_access

\* a plan was made while a large region had a size and no access entry
C25_Witness ==
    /\ PlannerReturned
    /\ call.out # <<>>
    /\ \E r \in DOMAIN write_buffers \ DOMAIN last_access :
           write_buffers[r] >= cfg.flush_threshold

\* C26: the list returned by pick_to_flush never holds the same region id
\* twice, whatever the branch.
C26_NoDuplicates ==
    PlannerReturned => Cardinality(Range(call.out)) = Len(call.out)

\* a plan of two regions
C26_Witness ==
    /\ PlannerReturned
    /\ Len(call.out) >= 2
    /\ call.out[1] # call.out[2]

\* C29 (under LimitSpec): in the last loop of Stage B, `choose_limit -=
\* size` runs only when size is strictly below the remaining choose_limit,
\* so the unsigned value never wraps, also when choose_limit starts at 0.
\* (The ids of the iterations are the output of Stage B.)
C29_LimitNeverUnderflows ==
    (PlannerReturned /\ call.branch = "by_size") =>
        \E ord \in IterOrders(last_access) :
            LET steps == limit_steps(sorted_priorities(Self, sorted_accesses(last_access, ord)),
                                     1, choose_limit(Self, call.mutable_mem_usage))
            IN  /\ [i \in DOMAIN steps |-> steps[i].id] = call.out
                /\ \A i \in DOMAIN steps :
                       steps[i].subtracted => steps[i].size < steps[i].choose_limit

\* Stage B has subtracted the size of its first region and gone on, in a
\* run whose soft_limit / 2 is 0
C29_Witness ==
    /\ PlannerReturned
    /\ call.branch = "by_size"
    /\ cfg.soft_limit \div 2 = 0
    /\ Len(call.out) >= 2

(***************************************************************************)
(* Properties of the executor, under RunnerSpec.                           *)
(***************************************************************************)
\* Option<V>: the entry of a map as a sequence of at most one value
Entry(m, k) == IF k \in DOMAIN m THEN <<m[k]>> ELSE <<>>

\* the tick's log holds an event of this kind for this region
Logged(kind, region_id) == \E j \in DOMAIN tick.log : tick.log[j] = <<kind, region_id>>

\* how many victims the tick has looked up so far
LookedUp ==
    Cardinality({j \in DOMAIN tick.log : tick.log[j][1] \in {"flush", "no_tablet"}})

\* C6: when the registry has no tablet for a victim, the tick stops there:
\* that victim and every later one of the plan get no flush and no
\* mark_flush, their entries of both maps are as they were when the tick
\* began, and on_timeout has returned.
C6_MissingTabletStopsBatch ==
    tick.state = "ran" =>
        \A j \in DOMAIN tick.log :
            tick.log[j][1] = "no_tablet" =>
                /\ j = Len(tick.log)
                /\ pc = "returned"
                /\ to_flush = <<>>
                /\ tick.log[j][2] = tick.out[LookedUp]
                /\ \A i \in LookedUp..Len(tick.out) :
                     /\ ~Logged("flush", tick.out[i])
                     /\ ~Logged("Ok", tick.out[i])
                     /\ ~Logged("Err", tick.out[i])
                     /\ ~Logged("mark_flush", tick.out[i])
                     /\ Entry(last_access, tick.out[i]) = Entry(tick.last_access, tick.out[i])
                     /\ Entry(write_buffers, tick.out[i]) = Entry(tick.write_buffers, tick.out[i])

\* the first of two victims has no tablet: the second, accessed and sized,
\* is left alone
C6_Witness ==
    /\ pc = "returned"
    /\ Len(tick.out) = 2
    /\ tick.log = << <<"no_tablet", tick.out[1]>> >>
    /\ tick.out[2] \in DOMAIN last_access
    /\ tick.out[2] \in DOMAIN write_buffers

\* C7: when flush fails on a victim, the tick goes on: mark_flush is called
\* for that victim, and once the tick has returned every later victim has
\* been flushed unless the registry had no tablet for it or for one between.
C7_FlushErrorDoesNotStopBatch ==
    tick.state = "ran" =>
        \A i \in DOMAIN tick.out :
            Logged("Err", tick.out[i]) =>
                /\ Logged("mark_flush", tick.out[i])
                /\ pc = "returned" =>
                     \A k \in (i + 1)..Len(tick.out) :
                         \/ Logged("flush", tick.out[k])
                         \/ \E n \in (i + 1)..k : Logged("no_tablet", tick.out[n])

\* the flush of the first victim failed and the second one was flushed
C7_Witness ==
    /\ pc = "returned"
    /\ Len(tick.out) = 2
    /\ Logged("Err", tick.out[1])
    /\ Logged("flush", tick.out[2])
    /\ Logged("mark_flush", tick.out[2])

\* C8: after a tick in which the flush of region r failed, r is still
\* eligible: under the same oracle readings and with no message in between,
\* the planner of the next tick can select r.
C8_FailedFlushStaysEligible ==
    (pc = "returned" /\ tick.state = "ran") =>
        \A i \in DOMAIN tick.out :
            Logged("Err", tick.out[i]) =>
                \E ord \in IterOrders(last_access) :
                    tick.out[i] \in
                        Range(pick_to_flush(Self, now, ord,
                                            tick.mem_usage, tick.mutable_mem_usage))

\* the log of the tick is made of one group per victim, in the order of the
\* plan: "flush", then "Ok" or "Err", then "mark_flush"; or "no_tablet"
ExecutorInOrder ==
    tick.state = "ran" =>
        /\ \A j \in DOMAIN tick.log :
             LET victim == ((j - 1) \div 3) + 1
                 step   == (j - 1) % 3
                 kind   == tick.log[j][1]
             IN  /\ victim <= Len(tick.out)
                 /\ tick.log[j][2] = tick.out[victim]
                 /\ step = 0 => kind \in {"flush", "no_tablet"}
                 /\ step = 1 => (kind \in {"Ok", "Err"} /\ tick.log[j - 1][1] = "flush")
                 /\ step = 2 => kind = "mark_flush"
        /\ (pc = "flush") = (Len(tick.log) % 3 = 1 /\ tick.log[Len(tick.log)][1] = "flush")
        /\ pc = "flush" => (time <= now /\ Head(to_flush) = tick.log[Len(tick.log)][2])

\* t_start is the clock when flush is invoked, and what mark_flush is
\* called with when flush has returned, together with the size read then
ExecutorStep ==
    /\ (pc = "open" /\ pc' = "flush") =>
           /\ time' = now
           /\ UNCHANGED <<last_access, write_buffers>>
    /\ (pc = "flush" /\ pc' = "flush") => UNCHANGED <<time, last_access, write_buffers>>
    /\ (pc = "flush" /\ pc' # "flush") =>
           \E size \in PostFlushSizes :
               LET new == mark_flush(last_access, write_buffers, Head(to_flush), time, size) IN
               /\ last_access' = new.last_access
               /\ write_buffers' = new.write_buffers

\* C23: within a tick the victims are handled in the order of the plan, one
\* at a time: t_start recorded and flush invoked, flush returned, the size
\* read and mark_flush(region, t_start, size) applied, all before the flush
\* of the next victim is invoked.
C23_VictimsInOrderOneAtATime == [](ExecutorInOrder) /\ [][ExecutorStep]_vars

\* a tick has handled two different victims, each through its mark_flush
C23_Witness ==
    /\ pc = "returned"
    /\ Len(tick.out) = 2
    /\ Len(tick.log) = 6
    /\ tick.out[1] # tick.out[2]

\* C24: planning does not modify the maps, and a tick whose plan is empty
\* opens no tablet, invokes no flush and returns with write_buffers and
\* last_access as they were when it began.
C24_EmptyPlanDoesNothing ==
    tick.state = "ran" =>
        /\ tick.log = <<>> =>
             (last_access = tick.last_access /\ write_buffers = tick.write_buffers)
        /\ tick.out = <<>> =>
             (tick.log = <<>> /\ to_flush = <<>> /\ pc = "returned")

\* a tick under pressure has planned nothing although regions are tracked
C24_Witness ==
    /\ tick.state = "ran"
    /\ tick.out = <<>>
    /\ pc = "returned"
    /\ tick.mem_usage >= cfg.soft_limit
    /\ DOMAIN last_access # {}
    /\ DOMAIN write_buffers # {}

\* victims are accessed regions, and one that mark_flush was called for has
\* no entry in last_access for the rest of the tick
FlushedVictimsForgotten ==
    tick.state = "ran" =>
        /\ Range(tick.out) \subseteq DOMAIN tick.last_access
        /\ \A i \in DOMAIN tick.out :
               Logged("mark_flush", tick.out[i]) => tick.out[i] \notin DOMAIN last_access

\* mark_flush in a tick takes its commit branch, and an entry of last_access
\* only ever appears by a RecordAccess message for its region
CommitThenOnlyRecordAccess ==
    /\ (pc = "flush" /\ pc' # "flush") =>
           LET region_id == Head(to_flush) IN
           /\ last_access' = Remove(last_access, region_id)
           /\ \E size \in PostFlushSizes :
                  write_buffers' = Insert(write_buffers, region_id, size)
    /\ \A r \in DOMAIN last_access' \ DOMAIN last_access :
           call'.op = "record_access" /\ call'.region_id = r

\* C27: in the Runner (messages and ticks one at a time, RecordAccess times
\* not later than their processing) mark_flush never takes its preserve
\* branch: a victim whose tablet resolved ends with no entry in last_access
\* and with write_buffers equal to the size read after the flush, and no
\* later tick selects it before a RecordAccess for it arrives (a tick only
\* selects regions of last_access, where only RecordAccess puts a region).
C27_SerialTickAlwaysCommits == [](FlushedVictimsForgotten) /\ [][CommitThenOnlyRecordAccess]_vars

\* a tick has flushed a region that was accessed at the very clock of its
\* flush, and returned
C27_Witness ==
    /\ pc = "returned"
    /\ tick.state = "ran"
    /\ \E i \in DOMAIN tick.out :
          /\ Logged("mark_flush", tick.out[i])
          /\ Entry(tick.last_access, tick.out[i]) = <<now>>
          /\ tick.out[i] \notin DOMAIN last_access
          /\ tick.out[i] \in DOMAIN tick.write_buffers
          /\ Entry(write_buffers, tick.out[i]) # Entry(tick.write_buffers, tick.out[i])

\* a tick that has flushed at least one region has returned with fewer
\* entries in last_access than it began with
TickShrinksLastAccess ==
    (tick.state = "ran" /\ pc = "returned" /\ tick.out # <<>>) =>
        Cardinality(DOMAIN last_access) < Cardinality(DOMAIN tick.last_access)

\* no message is being handled
NoIntake == call = NoCall

\* the plan of the tick, if one is running, is empty
PlanIsEmpty == tick.state = "ran" => tick.out = <<>>

\* C28 (under ResolvedSpec): with every tablet resolvable, a tick that
\* flushes at least one region strictly reduces the number of entries of
\* last_access; and once no more messages arrive, whatever the oracle
\* reads, the plans of all ticks are empty from some tick on.
C28_FlushingDiesOut ==
    /\ [](TickShrinksLastAccess)
    /\ (<>[]NoIntake => <>[]PlanIsEmpty)

\* a tick under full pressure has flushed the last two accessed regions:
\* last_access is empty, sizes are still recorded, no later plan can hold
\* a region
C28_Witness ==
    /\ tick.state = "ran"
    /\ pc = "returned"
    /\ Len(tick.out) = 2
    /\ Len(tick.log) = 6
    /\ tick.mem_usage >= cfg.total_limit
    /\ tick.mutable_mem_usage >= cfg.soft_limit
    /\ DOMAIN last_access = {}
    /\ \E r \in DOMAIN write_buffers : write_buffers[r] >= cfg.flush_threshold

====
